---- MODULE Spec2Model ----
(***************************************************************************)
(* Model of src/backend/main.py: the Monte Carlo equity estimator          *)
(* calculateEquity and the /calculate handler calculateOdds.               *)
(*                                                                         *)
(* The treys library (Card, Deck, Evaluator) is not part of the            *)
(* repository.  It is modelled by the contract the call sites of main.py   *)
(* rely on: Card.new gives every (rank, suit) pair its own integer,        *)
(* Deck() is a shuffled list of the 52 cards, Deck.draw() pops one card    *)
(* and raises on an empty list, and Evaluator.evaluate(cards, []) is the   *)
(* rank of the best five-card poker hand among the cards, lower = better.  *)
(***************************************************************************)
EXTENDS Integers, Sequences, FiniteSets, TLC

\* ------------------------------------------------------------------ bounds
\* The deck is cut down to its DeckSize highest cards (of the 52 of treys).
DeckSize == 13
\* Stands for numSimulations = 1000 of main.py:109.
numSimulations == 2
\* numPlayers of a request ranges over 1..MaxPlayers.
MaxPlayers == 3
\* potSize and betToCall of a request range over -MaxMoney..MaxMoney.
MaxMoney == 1

\* ------------------------------------------------------------- card codec
\* A card string is a sequence of one-character strings: "10h" is
\* <<"1","0","h">>.

\* rankMap of convertCardStrToTreys: the keys are rank strings.
rankMap ==
  [ k \in { <<"2">>, <<"3">>, <<"4">>, <<"5">>, <<"6">>, <<"7">>, <<"8">>,
            <<"9">>, <<"1","0">>, <<"J">>, <<"Q">>, <<"K">>, <<"A">> } |->
      CASE k = <<"1","0">> -> 10
        [] k = <<"J">> -> 11
        [] k = <<"Q">> -> 12
        [] k = <<"K">> -> 13
        [] k = <<"A">> -> 14
        [] k = <<"2">> -> 2
        [] k = <<"3">> -> 3
        [] k = <<"4">> -> 4
        [] k = <<"5">> -> 5
        [] k = <<"6">> -> 6
        [] k = <<"7">> -> 7
        [] k = <<"8">> -> 8
        [] OTHER -> 9 ]

\* suitMap of convertCardStrToTreys.
suitMap == [ k \in {"s", "h", "d", "c"} |->
               CASE k = "s" -> 0 [] k = "h" -> 1 [] k = "d" -> 2 [] OTHER -> 3 ]

\* str.upper() and str.lower() on one character (the letters card strings use).
LowerLetters == <<"a", "c", "d", "h", "j", "k", "q", "s", "x">>
UpperLetters == <<"A", "C", "D", "H", "J", "K", "Q", "S", "X">>

upperChar(ch) ==
  IF \E n \in 1..Len(LowerLetters) : LowerLetters[n] = ch
  THEN UpperLetters[CHOOSE n \in 1..Len(LowerLetters) : LowerLetters[n] = ch]
  ELSE ch

lowerChar(ch) ==
  IF \E n \in 1..Len(UpperLetters) : UpperLetters[n] = ch
  THEN LowerLetters[CHOOSE n \in 1..Len(UpperLetters) : UpperLetters[n] = ch]
  ELSE ch

upper(str) == [ n \in 1..Len(str) |-> upperChar(str[n]) ]

\* treys Card.new as main.py:77 uses it: one integer per (rank, suit).
\* rank = c \div 4 + 2, suit = c % 4.
TreysCardNew(rank, suit) == (rank - 2) * 4 + suit

RankOf(c) == (c \div 4) + 2
SuitOf(c) == c % 4

\* The two halves of a card string, main.py:71-72.
rankOfStr(cardStr) == upper(SubSeq(cardStr, 1, Len(cardStr) - 1))
suitOfStr(cardStr) == lowerChar(cardStr[Len(cardStr)])

\* The exception convertCardStrToTreys raises on cardStr, "none" if none:
\* cardStr[-1] of the empty string raises IndexError, main.py:74-75 raises
\* ValueError.
convertRaises(cardStr) ==
  IF Len(cardStr) = 0 THEN "IndexError"
  ELSE IF rankOfStr(cardStr) \notin DOMAIN rankMap
          \/ suitOfStr(cardStr) \notin DOMAIN suitMap
       THEN "ValueError"
       ELSE "none"

\* convertCardStrToTreys on a string it accepts, main.py:77.
convertCardStrToTreys(cardStr) ==
  TreysCardNew(rankMap[rankOfStr(cardStr)], suitMap[suitOfStr(cardStr)])

\* ------------------------------------------------------------------- deck
\* treys Deck(): the cards of a new deck (its order is the shuffle, which
\* the draws below choose).
TreysDeck == (52 - DeckSize)..51

\* ------------------------------------------------------------- evaluator
SetSum(f, S) ==
  LET RECURSIVE Acc(_)
      Acc(T) == IF T = {} THEN 0
                ELSE LET x == CHOOSE y \in T : TRUE IN f[x] + Acc(T \ {x})
  IN  Acc(S)

Pow15 == <<1, 15, 225, 3375, 50625, 759375>>

\* Strength of one five-card hand: category, then the ranks ordered by
\* multiplicity and height (the standard tie-break by kickers).
Strength5(hand) ==
  LET ranks   == { RankOf(c) : c \in hand }
      cnt     == [ r \in ranks |-> Cardinality({ c \in hand : RankOf(c) = r }) ]
      key     == [ r \in ranks |-> cnt[r] * 16 + r ]
      maxCnt  == CHOOSE n \in 1..4 : (\E r \in ranks : cnt[r] = n)
                                     /\ (\A r \in ranks : cnt[r] <= n)
      flush   == Cardinality({ SuitOf(c) : c \in hand }) = 1
      hi      == CHOOSE r \in ranks : \A q \in ranks : q <= r
      lo      == CHOOSE r \in ranks : \A q \in ranks : r <= q
      wheel   == ranks = {14, 2, 3, 4, 5}
      straight == Cardinality(ranks) = 5 /\ (hi - lo = 4 \/ wheel)
      category ==
        CASE straight /\ flush -> 8
          [] maxCnt = 4 -> 7
          [] maxCnt = 3 /\ Cardinality(ranks) = 2 -> 6
          [] flush -> 5
          [] straight -> 4
          [] maxCnt = 3 -> 3
          [] maxCnt = 2 /\ Cardinality(ranks) = 3 -> 2
          [] maxCnt = 2 -> 1
          [] OTHER -> 0
      pos     == [ r \in ranks |-> Cardinality({ q \in ranks : key[q] > key[r] }) ]
      kickers == IF straight THEN (IF wheel THEN 5 ELSE hi)
                 ELSE SetSum([ r \in ranks |-> r * Pow15[5 - pos[r]] ], ranks)
  IN  category * Pow15[6] + kickers

\* The rank of a five-card hand as treys orders it: lower is better, and two
\* hands have the same rank exactly when they tie.
Rank5(hand) == 9 * Pow15[6] - Strength5(hand)

MaxOf(S) == CHOOSE m \in S : \A x \in S : x <= m

Range(seq) == { seq[n] : n \in 1..Len(seq) }

\* The k highest ranks of a set as kickers, the highest at weight Pow15[at].
RECURSIVE Kickers(_, _, _)
Kickers(ranks, k, at) ==
  IF k = 0 \/ ranks = {} THEN 0
  ELSE MaxOf(ranks) * Pow15[at] + Kickers(ranks \ {MaxOf(ranks)}, k - 1, at - 1)

\* The top ranks of the straights a set of ranks holds (the ace also low).
StraightTops(ranks) ==
  { h \in 5..14 : \A d \in 0..4 : (IF h - d = 1 THEN 14 ELSE h - d) \in ranks }

\* Strength of the best five-card hand among five or more distinct cards;
\* on five cards it is Strength5.
BestStrength(cards) ==
  LET ranks  == { RankOf(c) : c \in cards }
      cnt    == [ r \in ranks |-> Cardinality({ c \in cards : RankOf(c) = r }) ]
      suited == [ s \in 0..3 |-> { RankOf(c) : c \in { x \in cards : SuitOf(x) = s } } ]
      sfTops == UNION { StraightTops(suited[s]) : s \in 0..3 }
      flushes == { s \in 0..3 : Cardinality(suited[s]) >= 5 }
      tops   == StraightTops(ranks)
      quads  == { r \in ranks : cnt[r] = 4 }
      trips  == { r \in ranks : cnt[r] >= 3 }
      pairs  == { r \in ranks : cnt[r] >= 2 }
  IN  IF sfTops # {} THEN 8 * Pow15[6] + MaxOf(sfTops)
      ELSE IF quads # {}
      THEN 7 * Pow15[6] + MaxOf(quads) * Pow15[5]
           + MaxOf(ranks \ {MaxOf(quads)}) * Pow15[4]
      ELSE IF trips # {} /\ pairs \ {MaxOf(trips)} # {}
      THEN 6 * Pow15[6] + MaxOf(trips) * Pow15[5]
           + MaxOf(pairs \ {MaxOf(trips)}) * Pow15[4]
      ELSE IF flushes # {}
      THEN 5 * Pow15[6] + MaxOf({ Kickers(suited[s], 5, 5) : s \in flushes })
      ELSE IF tops # {} THEN 4 * Pow15[6] + MaxOf(tops)
      ELSE IF trips # {}
      THEN 3 * Pow15[6] + MaxOf(trips) * Pow15[5]
           + Kickers(ranks \ {MaxOf(trips)}, 2, 4)
      ELSE IF Cardinality(pairs) >= 2
      THEN 2 * Pow15[6] + Kickers(pairs, 2, 5)
           + Kickers(ranks \ {MaxOf(pairs), MaxOf(pairs \ {MaxOf(pairs)})}, 1, 3)
      ELSE IF pairs # {}
      THEN Pow15[6] + MaxOf(pairs) * Pow15[5] + Kickers(ranks \ pairs, 3, 4)
      ELSE Kickers(ranks, 5, 5)

\* evaluator.evaluate(cards, []): the rank of the best five-card hand among
\* the cards (treys: lower is better).
evaluate(cards) == 9 * Pow15[6] - BestStrength(Range(cards))

\* ----------------------------------------------------------------- inputs
\* Requests the handler is called with.  Every card named lies among the
\* DeckSize highest cards.  Hole card lists: four distinct cards (in mixed
\* case), three cards, five cards, a repeated card, a malformed string.
Hole4 == << <<"A","s">>, <<"k","h">>, <<"Q","D">>, <<"J","c">> >>
Hole3 == << <<"A","s">>, <<"K","h">>, <<"Q","d">> >>
Hole5 == << <<"A","s">>, <<"K","h">>, <<"Q","d">>, <<"J","c">>, <<"K","c">> >>
HoleRepeat == << <<"A","s">>, <<"K","h">>, <<"a","S">>, <<"J","c">> >>
HoleMalformed == << <<"A","s">>, <<"K","h">>, <<"Q","d">>, <<"1","0","x">> >>

\* Community card lists: five, four, three and six cards disjoint from the
\* hole cards above, four cards of which one is a hole card, and a list
\* holding the empty string.
Comm5 == << <<"A","h">>, <<"K","s">>, <<"Q","h">>, <<"Q","s">>, <<"A","d">> >>
Comm4 == << <<"A","h">>, <<"K","s">>, <<"Q","h">>, <<"Q","s">> >>
Comm3 == << <<"A","h">>, <<"K","s">>, <<"Q","h">> >>
Comm6 == << <<"A","h">>, <<"K","s">>, <<"Q","h">>, <<"Q","s">>, <<"A","d">>,
            <<"Q","c">> >>
CommOverlap == << <<"A","h">>, <<"K","H">>, <<"Q","h">>, <<"Q","s">> >>
CommEmptyString == << <<"A","h">>, <<>>, <<"Q","h">>, <<"Q","s">> >>

HoleInputs == { Hole4, Hole3, Hole5, HoleRepeat, HoleMalformed }
CommunityInputs == { Comm5, Comm4, Comm3, Comm6, CommOverlap, CommEmptyString }

\* One of the two lists varies at a time.
Requests == ({Hole4} \X CommunityInputs) \cup (HoleInputs \X {Comm5})

Money == (0 - MaxMoney)..MaxMoney

\* ------------------------------------------------------------------ state
VARIABLES
  holeCards,            \* request.holeCards
  communityCards,       \* request.communityCards
  numPlayers,           \* request.numPlayers
  potSize,              \* request.potSize (0 until the handler reads it)
  betToCall,            \* request.betToCall (0 until the handler reads it)
  pc,                   \* where the handler is
  holeCardsTreys,       \* main.py:96
  communityCardsTreys,  \* main.py:101
  i,                    \* trials completed (the loop variable of main.py:112)
  wins,                 \* main.py:110
  deck,                 \* deck.cards of the current trial, as a set
  currentCommunity,     \* main.py:119
  opponentCards,        \* the list main.py:126 is building
  opponentHands,        \* main.py:124
  ourScore,             \* main.py:131 (0 before the first evaluation)
  equity,               \* <<wins, numSimulations>> once returned, else <<>>
  error,                \* the exception raised, "none" if none
  response              \* the HTTP response, <<>> before it is sent

vars == << holeCards, communityCards, numPlayers, potSize, betToCall, pc,
           holeCardsTreys, communityCardsTreys, i, wins, deck,
           currentCommunity, opponentCards, opponentHands, ourScore, equity,
           error, response >>

request == << holeCards, communityCards, numPlayers >>
trial == << deck, currentCommunity, opponentCards, opponentHands, ourScore >>

Init ==
  /\ \E r \in Requests : holeCards = r[1] /\ communityCards = r[2]
  /\ numPlayers \in 1..MaxPlayers
  /\ potSize = 0
  /\ betToCall = 0
  /\ pc = "convert"
  /\ holeCardsTreys = <<>>
  /\ communityCardsTreys = <<>>
  /\ i = 0
  /\ wins = 0
  /\ deck = {}
  /\ currentCommunity = <<>>
  /\ opponentCards = <<>>
  /\ opponentHands = <<>>
  /\ ourScore = 0
  /\ equity = <<>>
  /\ error = "none"
  /\ response = <<>>

\* ---------------------------------------------------------- calculateEquity
\* The first string of a list that convertCardStrToTreys rejects, 0 if none.
FirstRejected(strs) ==
  IF \E n \in 1..Len(strs) : convertRaises(strs[n]) # "none"
  THEN CHOOSE n \in 1..Len(strs) :
         /\ convertRaises(strs[n]) # "none"
         /\ \A m \in 1..(n - 1) : convertRaises(strs[m]) = "none"
  ELSE 0

ConvertAll(strs) == [ n \in 1..Len(strs) |-> convertCardStrToTreys(strs[n]) ]

\* main.py:96-110: both conversion loops, then wins = 0.
ConvertCards ==
  /\ pc = "convert"
  /\ LET h == FirstRejected(holeCards)
         c == FirstRejected(communityCards)
     IN  IF h # 0
         THEN /\ error' = convertRaises(holeCards[h])
              /\ holeCardsTreys' = ConvertAll(SubSeq(holeCards, 1, h - 1))
              /\ pc' = "raised"
              /\ UNCHANGED communityCardsTreys
         ELSE IF c # 0
         THEN /\ error' = convertRaises(communityCards[c])
              /\ holeCardsTreys' = ConvertAll(holeCards)
              /\ communityCardsTreys' = ConvertAll(SubSeq(communityCards, 1, c - 1))
              /\ pc' = "raised"
         ELSE /\ holeCardsTreys' = ConvertAll(holeCards)
              /\ communityCardsTreys' = ConvertAll(communityCards)
              /\ pc' = "loop"
              /\ UNCHANGED error
  /\ UNCHANGED << request, potSize, betToCall, i, wins, trial, equity, response >>

\* The first card of a list that list.remove does not find among the cards
\* left (it is not in the deck, or an earlier entry removed it), 0 if none.
FirstNotInDeck(cards, known) ==
  IF \E n \in 1..Len(known) :
       known[n] \notin cards \/ \E m \in 1..(n - 1) : known[m] = known[n]
  THEN CHOOSE n \in 1..Len(known) :
         /\ known[n] \notin cards \/ \E m \in 1..(n - 1) : known[m] = known[n]
         /\ \A k \in 1..(n - 1) :
              known[k] \in cards /\ \A m \in 1..(k - 1) : known[m] # known[k]
  ELSE 0

\* One deck made before the first trial and shared by all of them: what
\* the trial before left, with the known cards put back for the removals.
DeckOfFirstTrial(previous) ==
  IF i = 0 THEN TreysDeck
  ELSE previous \cup Range(holeCardsTreys \o communityCardsTreys)

\* The deck of a trial: a new treys deck.
NewDeck(previous) == TreysDeck

\* main.py:114-119: a new deck, the known cards removed from it one by one
\* (list.remove raises ValueError for a card that is not there), and a copy
\* of the known community cards.
StartTrial ==
  /\ pc = "loop"
  /\ i < numSimulations
  /\ LET known == holeCardsTreys \o communityCardsTreys
         cards == NewDeck(deck)
         bad   == FirstNotInDeck(cards, known)
     IN  IF bad # 0
         THEN /\ deck' = cards \ { known[n] : n \in 1..(bad - 1) }
              /\ error' = "ValueError"
              /\ pc' = "raised"
              /\ UNCHANGED currentCommunity
         ELSE /\ deck' = cards \ Range(known)
              /\ currentCommunity' = communityCardsTreys
              /\ pc' = "board"
              /\ UNCHANGED error
  /\ UNCHANGED << request, potSize, betToCall, holeCardsTreys,
                  communityCardsTreys, i, wins, opponentCards, opponentHands,
                  ourScore, equity, response >>

\* A draw that leaves the card in the deck.
AfterDrawKept(cards, card) == cards

\* deck.cards after deck.draw() returned card.
AfterDraw(cards, card) == cards \ {card}

\* main.py:120-121: one pass of the while loop.  deck.draw() pops the head of
\* the shuffled list, any card still in the deck, and raises IndexError when
\* the list is empty.
DrawBoard ==
  /\ pc = "board"
  /\ Len(currentCommunity) < 5
  /\ IF deck = {}
     THEN /\ error' = "IndexError"
          /\ pc' = "raised"
          /\ UNCHANGED << deck, currentCommunity >>
     ELSE /\ \E card \in deck :
               /\ deck' = AfterDraw(deck, card)
               /\ currentCommunity' = Append(currentCommunity, card)
          /\ UNCHANGED << pc, error >>
  /\ UNCHANGED << request, potSize, betToCall, holeCardsTreys,
                  communityCardsTreys, i, wins, opponentCards, opponentHands,
                  ourScore, equity, response >>

\* main.py:124: the while loop is left, opponentHands = [].
CreateOpponentHands ==
  /\ pc = "board"
  /\ Len(currentCommunity) >= 5
  /\ opponentHands' = <<>>
  /\ opponentCards' = <<>>
  /\ pc' = "opponents"
  /\ UNCHANGED << request, potSize, betToCall, holeCardsTreys,
                  communityCardsTreys, i, wins, deck, currentCommunity,
                  ourScore, equity, error, response >>

\* main.py:125-127: one deck.draw() of the list comprehension; the fourth
\* card completes the hand, which is appended with the board.
DrawOpponentCard ==
  /\ pc = "opponents"
  /\ Len(opponentHands) < numPlayers - 1
  /\ IF deck = {}
     THEN /\ error' = "IndexError"
          /\ pc' = "raised"
          /\ UNCHANGED << deck, opponentCards, opponentHands >>
     ELSE /\ \E card \in deck :
               /\ deck' = AfterDraw(deck, card)
               /\ IF Len(opponentCards) = 3
                  THEN /\ opponentHands' =
                            Append(opponentHands,
                                   Append(opponentCards, card) \o currentCommunity)
                       /\ opponentCards' = <<>>
                  ELSE /\ opponentCards' = Append(opponentCards, card)
                       /\ UNCHANGED opponentHands
          /\ UNCHANGED << pc, error >>
  /\ UNCHANGED << request, potSize, betToCall, holeCardsTreys,
                  communityCardsTreys, i, wins, currentCommunity, ourScore,
                  equity, response >>

\* The comparison with >= in place of >: a tie counts as a win.
AllOpponentsWorseOrTied(score, hands) ==
  \A n \in 1..Len(hands) : evaluate(hands[n]) >= score

\* main.py:134: all(evaluate(oppHand, []) > ourScore for oppHand in ...).
AllOpponentsWorse(score, hands) ==
  \A n \in 1..Len(hands) : evaluate(hands[n]) > score

\* main.py:134-135: the new value of wins.
CountWin(w, won) == IF won THEN w + 1 ELSE w

\* main.py:130-131: ourHand and ourScore.
EvaluateOurHand ==
  /\ pc = "opponents"
  /\ Len(opponentHands) >= numPlayers - 1
  /\ ourScore' = evaluate(holeCardsTreys \o currentCommunity)
  /\ pc' = "compare"
  /\ UNCHANGED << request, potSize, betToCall, holeCardsTreys,
                  communityCardsTreys, i, wins, deck, currentCommunity,
                  opponentCards, opponentHands, equity, error, response >>

\* main.py:134-137: compare, count, next trial.  opponentCards, opponentHands
\* and ourScore are not read again before the next trial assigns them; they
\* are emptied here, so that what a finished trial leaves behind does not
\* tell two states of the loop apart.
CompareHands ==
  /\ pc = "compare"
  /\ wins' = CountWin(wins, AllOpponentsWorse(ourScore, opponentHands))
  /\ i' = i + 1
  /\ opponentCards' = <<>>
  /\ opponentHands' = <<>>
  /\ ourScore' = 0
  /\ pc' = "loop"
  /\ UNCHANGED << request, potSize, betToCall, holeCardsTreys,
                  communityCardsTreys, deck, currentCommunity, equity, error,
                  response >>

\* The equity as a percentage, 100 * wins / numSimulations.
FractionAsPercent(w, n) == << 100 * w, n >>

\* wins / numSimulations, kept as the fraction.
Fraction(w, n) == << w, n >>

\* main.py:140-145: equity = wins / numSimulations is returned; the deck and
\* the board of the last trial go with the frame of the call.
ReturnEquity ==
  /\ pc = "loop"
  /\ i >= numSimulations
  /\ equity' = Fraction(wins, numSimulations)
  /\ deck' = {}
  /\ currentCommunity' = <<>>
  /\ pc' = "returned"
  /\ UNCHANGED << request, potSize, betToCall, holeCardsTreys,
                  communityCardsTreys, i, wins, opponentCards, opponentHands,
                  ourScore, error, response >>

\* ------------------------------------------------------------ calculateOdds
\* main.py:173: betToCall / (potSize + betToCall) as a fraction, or the
\* exception the division raises.
PotOdds(pot, bet) ==
  IF pot + bet = 0 THEN "ZeroDivisionError" ELSE << bet, pot + bet >>

\* main.py:176, times numSimulations: (equity * pot) - ((1 - equity) * bet).
EvTimesN(w, pot, bet) == (w * pot) - ((numSimulations - w) * bet)

\* main.py:172-189: pot odds, EV, the decision and the response.  The
\* request's potSize and betToCall are read here for the first time.
Respond ==
  /\ pc = "returned"
  /\ \E pot \in Money, bet \in Money :
       /\ potSize' = pot
       /\ betToCall' = bet
       /\ IF PotOdds(pot, bet) = "ZeroDivisionError"
          THEN /\ error' = "ZeroDivisionError"
               /\ pc' = "raised"
               /\ UNCHANGED response
          ELSE /\ response' = [ status |-> 200,
                                equity |-> equity,
                                potOdds |-> PotOdds(pot, bet),
                                evTimesN |-> EvTimesN(wins, pot, bet),
                                shouldCall |-> EvTimesN(wins, pot, bet) >= 0 ]
               /\ pc' = "done"
               /\ UNCHANGED error
  /\ UNCHANGED << request, holeCardsTreys, communityCardsTreys, i, wins, trial,
                  equity >>

\* main.py:191-193: any exception becomes HTTPException(400, detail=str(e)).
RespondError ==
  /\ pc = "raised"
  /\ response' = [ status |-> 400, detail |-> error ]
  /\ pc' = "done"
  /\ UNCHANGED << request, potSize, betToCall, holeCardsTreys,
                  communityCardsTreys, i, wins, trial, equity, error >>

Next ==
  \/ ConvertCards
  \/ StartTrial
  \/ DrawBoard
  \/ CreateOpponentHands
  \/ DrawOpponentCard
  \/ EvaluateOurHand
  \/ CompareHands
  \/ ReturnEquity
  \/ Respond
  \/ RespondError

Spec == Init /\ [][Next]_vars

\* ------------------------------------------------------- request classes
KnownStrs == holeCards \o communityCards

AllConvert == \A n \in 1..Len(KnownStrs) : convertRaises(KnownStrs[n]) = "none"

\* No card is named twice among the hole cards and the community cards.
NoRepeat ==
  \A m, n \in 1..Len(KnownStrs) :
    m # n => convertCardStrToTreys(KnownStrs[m]) # convertCardStrToTreys(KnownStrs[n])

\* The draws one trial needs, and the cards the deck holds for them.
DrawsNeeded == (5 - Len(communityCards)) + 4 * (numPlayers - 1)
CardsLeft == DeckSize - Len(KnownStrs)

RightSizes == Len(holeCards) = 4 /\ Len(communityCards) <= 5

ValidRequest ==
  /\ AllConvert
  /\ RightSizes
  /\ NoRepeat
  /\ numPlayers >= 2
  /\ DrawsNeeded <= CardsLeft

InTrial == pc \in {"board", "opponents", "compare"}

\* The hole cards of the opponents dealt so far in this trial.
OpponentHole(n) == SubSeq(opponentHands[n], 1, 4)

\* The cards drawn from the deck in this trial, in the order drawn.
RECURSIVE Flatten(_)
Flatten(seqs) == IF seqs = <<>> THEN <<>> ELSE Head(seqs) \o Flatten(Tail(seqs))

Drawn ==
  SubSeq(currentCommunity, Len(communityCardsTreys) + 1, Len(currentCommunity))
  \o Flatten([ n \in 1..Len(opponentHands) |-> OpponentHole(n) ])
  \o opponentCards

NoCardTwice(seq) == \A m, n \in 1..Len(seq) : m # n => seq[m] # seq[n]

\* The Omaha rank of a player: the best rank over the hands of two hole
\* cards and three board cards.
MinOf(S) == CHOOSE m \in S : \A x \in S : m <= x
KSubsets(S, k) == { T \in SUBSET S : Cardinality(T) = k }
OmahaBestRank(hole, board) ==
  MinOf({ Rank5(h \cup b) : h \in KSubsets(Range(hole), 2),
                            b \in KSubsets(Range(board), 3) })

\* ----------------------------------------------------------------- claims

\* C1: for a valid request calculateEquity raises nothing and returns
\* wins / numSimulations, which lies in [0, 1]: wins starts at 0, rises by at
\* most 1 per trial, and 0 <= wins <= trials completed <= numSimulations.
C1_EquityInUnitInterval ==
  /\ [](\/ error = "none"
        \/ error = "ZeroDivisionError" /\ equity # <<>>
        \/ ~ValidRequest)
  /\ [](/\ 0 <= wins /\ wins <= i /\ i <= numSimulations
        /\ (equity # <<>> =>
              /\ i = numSimulations
              /\ equity = << wins, numSimulations >>
              /\ 0 <= equity[1] /\ equity[1] <= equity[2]))
  /\ [][/\ wins' \in {wins, wins + 1}
        /\ i' \in {i, i + 1}
        /\ (wins' # wins => i' = i + 1)]_vars

C1_Witness ==
  /\ ValidRequest
  /\ pc = "returned"
  /\ equity = << 1, numSimulations >>

\* C2: a trial adds 1 to wins exactly when the hero's rank is strictly better
\* (lower) than the rank of every opponent; a trial in which an opponent's
\* rank equals the hero's adds nothing.
C2_TieIsNotAWin ==
  [][pc = "compare" =>
       LET hero   == evaluate(holeCardsTreys \o currentCommunity)
           opp(n) == evaluate(opponentHands[n])
           opps   == 1..Len(opponentHands)
       IN  /\ wins' \in {wins, wins + 1}
           /\ (wins' = wins + 1) <=> (\A n \in opps : hero < opp(n))
           /\ (\E n \in opps : opp(n) = hero) => wins' = wins]_vars

\* A trial in which an opponent ties the hero, after a trial the hero won.
C2_Witness ==
  /\ pc = "compare"
  /\ wins >= 1
  /\ \E n \in 1..Len(opponentHands) : evaluate(opponentHands[n]) = ourScore

\* C3: the rank compared for every player is the Omaha rank, the best over
\* the 60 hands of 2 of the player's 4 hole cards and 3 of the 5 board cards.
C3_OmahaRankCompared ==
  (pc = "compare" /\ ValidRequest) =>
     /\ ourScore = OmahaBestRank(holeCardsTreys, currentCommunity)
     /\ \A n \in 1..Len(opponentHands) :
          evaluate(opponentHands[n]) = OmahaBestRank(OpponentHole(n), currentCommunity)

\* C4: within a trial no card is drawn twice, no drawn card is a hole card of
\* the hero or a known community card, and no card still in the deck is in
\* anybody's hand or on the board.
C4_DrawsDistinct ==
  InTrial =>
     /\ NoCardTwice(holeCardsTreys \o communityCardsTreys \o Drawn)
     /\ deck \cap Range(holeCardsTreys \o communityCardsTreys \o Drawn) = {}
     /\ Range(Drawn) \subseteq TreysDeck

C4_Witness ==
  /\ ValidRequest
  /\ pc = "compare"
  /\ Len(opponentHands) = 1
  /\ Len(currentCommunity) > Len(communityCardsTreys)
  /\ i >= 1

\* C5: a request with numPlayers < 2 fails with InvalidPlayerCount and
\* returns no equity.
C5_InvalidPlayerCount ==
  (AllConvert /\ RightSizes /\ NoRepeat /\ numPlayers < 2) =>
     /\ equity = <<>>
     /\ error \in {"none", "InvalidPlayerCount"}
     /\ (pc = "done" => error = "InvalidPlayerCount")

\* C6: a request whose trial needs more draws than the deck holds fails with
\* InsufficientDeck before any trial starts and before any card is drawn.
C6_InsufficientDeck ==
  (AllConvert /\ RightSizes /\ NoRepeat /\ numPlayers >= 2
     /\ DrawsNeeded > CardsLeft) =>
     /\ Drawn = <<>>
     /\ error \in {"none", "InsufficientDeck"}
     /\ (pc = "done" => error = "InsufficientDeck")

\* C7: a request with other than 4 hole cards or more than 5 community cards
\* fails with InvalidHandSize; no trial is evaluated with a hero hand of
\* other than 4 hole cards or a board of other than 5 cards.
C7_InvalidHandSize ==
  /\ (AllConvert /\ NoRepeat /\ ~RightSizes) =>
        /\ equity = <<>>
        /\ error \in {"none", "InvalidHandSize"}
  /\ pc = "compare" => Len(holeCardsTreys) = 4 /\ Len(currentCommunity) = 5

\* C8: a request naming a card twice fails with DuplicateCard before any
\* simulation work: no deck is built and no trial is started.
C8_DuplicateCard ==
  (AllConvert /\ ~NoRepeat) =>
     /\ deck = {}
     /\ ~InTrial
     /\ error \in {"none", "DuplicateCard"}
     /\ (pc = "done" => error = "DuplicateCard")

\* C9: once the pot odds have been computed, the request has failed with
\* InvalidPotSize if potSize + betToCall <= 0, and otherwise the response
\* carries betToCall / (potSize + betToCall).
C9_InvalidPotSize ==
  (equity # <<>> /\ pc \in {"raised", "done"}) =>
     IF potSize + betToCall <= 0
     THEN error = "InvalidPotSize"
     ELSE /\ error = "none"
          /\ pc = "done" => response.potOdds = << betToCall, potSize + betToCall >>

\* C10: no state carries over between trials.  Every trial starts from the
\* new deck less the known cards and from the known community cards as
\* given, whatever the trial before drew; within a well-sized request the
\* board is completed to 5 cards that begin with the known ones; the
\* converted hole and community cards never change.
C10_FreshTrial ==
  /\ [][(pc = "loop" /\ i < numSimulations) =>
          /\ (pc' = "board" \/ ~ValidRequest)
          /\ pc' = "board" =>
                /\ deck' = TreysDeck \ Range(holeCardsTreys \o communityCardsTreys)
                /\ currentCommunity' = communityCardsTreys]_vars
  /\ [](pc \in {"opponents", "compare"} =>
          \/ /\ Len(currentCommunity) = 5
             /\ SubSeq(currentCommunity, 1, Len(communityCardsTreys))
                  = communityCardsTreys
          \/ ~RightSizes)
  /\ [][pc # "convert" =>
          /\ holeCardsTreys' = holeCardsTreys
          /\ communityCardsTreys' = communityCardsTreys
          /\ holeCards' = holeCards
          /\ communityCards' = communityCards]_vars

\* The second trial has completed its board after the first drew its own.
C10_Witness ==
  /\ ValidRequest
  /\ i >= 1
  /\ pc = "opponents"
  /\ Len(communityCardsTreys) < 5
  /\ deck # {}

====
